---- MODULE Spec2Model ----
(***************************************************************************)
(* State-machine model of the pyData fixture generators                    *)
(* (generate_users.py, generate_articles.py, generate_comments.py,         *)
(* generate_resources.py, generate_chat_messages.py, generate_likes.py)    *)
(* and of the orchestrator main.py.                                        *)
(*                                                                         *)
(* The database is modelled as two copies of every table: db is what is    *)
(* committed (visible to any other connection, and what remains after a    *)
(* rollback), tx is what the generator's own connection sees (committed    *)
(* rows plus its uncommitted ones).  pymysql connections do not            *)
(* autocommit, so every cursor.execute works on tx, connection.commit()    *)
(* copies tx to db and connection.rollback() copies db to tx.              *)
(* AUTO_INCREMENT counters (seq) are not transactional: a rollback does    *)
(* not give ids back.                                                      *)
(*                                                                         *)
(* Every random draw of the source (random.randint, random.random,         *)
(* random.choices, ORDER BY RAND()) is a nondeterministic choice.  Columns *)
(* that no control flow and no other row depends on (texts, timestamps,    *)
(* view counts) are left out of the rows.                                  *)
(*                                                                         *)
(* config.py is not part of the sources at hand: the row counts it sets    *)
(* (USER_COUNT, ARTICLE_COUNT, RESOURCE_COUNT, COMMENT_COUNT) are inputs,  *)
(* held in cfg and drawn by each specification's initial condition.        *)
(***************************************************************************)
EXTENDS Integers, Sequences, FiniteSets, Bags, TLC

\* iterations per in-loop commit: the literal 1000 of "% 1000 == 0", scaled
BatchSize == 2
\* largest USER_COUNT generate_users is run with
MaxUsers == 5
\* upper end of random.randint(0, 200), the likes drawn per article, scaled
MaxArticleLikes == 3
\* upper end of random.randint(0, 100), the likes drawn per resource, scaled
MaxResourceLikes == 1
\* upper end of random.randint(1, 50), the likes drawn per comment, scaled
MaxCommentLikes == 1
\* upper end of random.randint(1, 5), the code blocks drawn per article, scaled
MaxCodeBlocks == 1
\* largest CHAT_MESSAGE_COUNT generate_chat_messages is run with
MaxChatMessages == 3
\* upper end of random.randint(1, 5), the images drawn per resource, scaled
MaxResourceImages == 1
\* upper end of random.randint(1, 4), the tags drawn per resource, scaled
MaxResourceTags == 1

VARIABLES
    cfg,       \* the counts of config.py
    pc,        \* position of the running script
    db,        \* committed tables
    tx,        \* tables as the open connection sees them
    seq,       \* AUTO_INCREMENT counter per table
    i,         \* loop index of the outer for loop
    n,         \* iterations the inner like loop still has to do
    cur,       \* subject of the inner like loop (article_id, resource_id, comment_id)
    commits,   \* connection.commit() calls made by this run
    staged,    \* rows inserted since the last commit (history)
    flushed,   \* rows inserted before the last commit (history)
    failed,    \* an exception was raised inside the try block
    crashed,   \* an exception left the script (traceback, exit status 1)
    exitCode,  \* exit status of the script's process, -1 while it runs
    last,      \* what the latest step did (history)
    main,      \* main.py: position, success_count and the scripts it ran
    drew,      \* a reply draw of this run has succeeded (history)
    pools,     \* the id lists loaded from parent tables, by table
    db0,       \* the committed tables when the script started (history)
    conn       \* calls made on the connection: connect, rollback, close (history)

vars == <<cfg, pc, db, tx, seq, i, n, cur, commits, staged, flushed, failed,
          crashed, exitCode, last, main, drew, pools, db0, conn>>

\* the connection of a process: nothing called yet, and after pymysql.connect
NoConnection == [opened |-> 0, rollbacks |-> 0, closes |-> 0]
Connected == [opened |-> 1, rollbacks |-> 0, closes |-> 0]

\* the id lists of a generator that has loaded none: pools maps each parent
\* table the generator has read into a list to the ids it found
NoPools == <<>>

\* Python's None in a nullable column
NULL == -1

RECURSIVE SumOver(_, _)
SumOver(S, f) ==
    IF S = {} THEN 0
    ELSE LET e == CHOOSE x \in S : TRUE IN f[e] + SumOver(S \ {e}, f)

(***************************************************************************)
(* Tables.  Relation tables are bags of <<subject_id, user_id>> pairs (the *)
(* row's own id is never read); comment tables are sets of rows; entity    *)
(* tables map the id to the row's counters.                                *)
(***************************************************************************)
LikeTables == {"article_likes", "resource_likes",
               "article_comment_likes", "resource_comment_likes"}
CommentTables == {"article_comments", "resource_comments"}

EmptyTables ==
    [user_auth |-> {}, user_profile |-> EmptyBag,
     articles |-> <<>>, resources |-> <<>>,
     article_likes |-> EmptyBag, resource_likes |-> EmptyBag,
     article_comments |-> {}, resource_comments |-> {},
     article_comment_likes |-> EmptyBag, resource_comment_likes |-> EmptyBag,
     article_categories |-> <<>>, article_tags |-> <<>>,
     article_code_blocks |-> EmptyBag,
     article_category_relations |-> EmptyBag, article_tag_relations |-> EmptyBag,
     chat_messages |-> {},
     resource_categories |-> <<>>, resource_images |-> EmptyBag,
     resource_tags |-> EmptyBag]

\* AUTO_INCREMENT counters of a schema no row was ever inserted into
FreshSeq ==
    [user_auth |-> 1, articles |-> 1, resources |-> 1, chat_messages |-> 1,
     article_comments |-> 1, resource_comments |-> 1]

\* SELECT COUNT(*) FROM <relation> WHERE <subject column> = s
CountPairs(bag, s) ==
    SumOver({e \in BagToSet(bag) : e[1] = s}, bag)

\* SELECT id FROM <relation> WHERE <subject> = s AND user_id = u; fetchone()
PairExists(t, table, s, u) == BagIn(<<s, u>>, t[table])

\* INSERT INTO <relation> (<subject>, user_id, created_at)
InsertPair(t, table, s, u) ==
    [t EXCEPT ![table] = @ (+) SetToBag({<<s, u>>})]

\* the guarded insert of every like loop: "if not cursor.fetchone(): INSERT"
TryInsertUnchecked(t, table, s, u) == InsertPair(t, table, s, u)
TryInsertAnySubject(t, table, s, u) ==
    IF \E e \in BagToSet(t[table]) : e[2] = u THEN t ELSE InsertPair(t, table, s, u)
TryInsert(t, table, s, u) ==
    IF PairExists(t, table, s, u) THEN t ELSE InsertPair(t, table, s, u)

(***************************************************************************)
(* The transaction of the open connection.                                 *)
(***************************************************************************)
\* cursor.execute of an INSERT/UPDATE: the change is visible to this
\* connection only; rows names the inserted rows
Write(t2, rows) ==
    /\ tx' = t2
    /\ staged' = staged \cup rows
    /\ UNCHANGED <<db, commits, flushed>>

\* the same followed by connection.commit()
WriteCommit(t2, rows) ==
    /\ tx' = t2
    /\ db' = t2
    /\ commits' = commits + 1
    /\ staged' = {}
    /\ flushed' = flushed \cup staged \cup rows

\* "if <counter> % 1000 == 0" before the in-loop connection.commit()
AtBatchEndNever(count) == FALSE
AtBatchEnd(count) == count % BatchSize = 0

\* connection.rollback(): the committed tables and the connection's view after it
AfterRollbackCommitting(d, t) == [db |-> t, tx |-> t]
AfterRollback(d, t) == [db |-> d, tx |-> d]

\* A database call inside "try:" raises: control leaves the loops for
\* "except Exception as e: print(...); connection.rollback()" and reaches
\* "finally:".  The locals of the loops are dead from here on.  When
\* rollback() itself raises (the connection is gone) the exception leaves the
\* script after "finally"; the server discards the transaction of a lost
\* connection all the same.
AbortWithoutRollback ==
    /\ pc' = "finally"
    /\ failed' = TRUE
    /\ UNCHANGED <<db, tx>>
    /\ crashed' \in BOOLEAN
    /\ n' = 0
    /\ cur' = 0
    /\ last' = [kind |-> "raise"]
    /\ UNCHANGED conn
    /\ UNCHANGED <<cfg, pools, db0, seq, i, commits, staged, flushed, exitCode, main, drew>>
Abort ==
    /\ pc' = "finally"
    /\ failed' = TRUE
    /\ db' = AfterRollback(db, tx).db
    /\ tx' = AfterRollback(db, tx).tx
    /\ crashed' \in BOOLEAN
    /\ n' = 0
    /\ cur' = 0
    /\ last' = [kind |-> "raise"]
    /\ conn' = [conn EXCEPT !.rollbacks = @ + 1]
    /\ UNCHANGED <<cfg, pools, db0, seq, i, commits, staged, flushed, exitCode, main, drew>>

\* finally: connection.close(); then the interpreter exits: status 0 when the
\* function returned, 1 when an exception escaped
Close ==
    /\ pc = "finally"
    /\ pc' = "exit"
    /\ exitCode' = IF crashed THEN 1 ELSE 0
    /\ conn' = [conn EXCEPT !.closes = @ + 1]
    /\ UNCHANGED <<cfg, pools, db0, db, tx, seq, i, n, cur, commits, staged, flushed, failed,
                   crashed, last, main, drew>>

(***************************************************************************)
(* generate_likes.py                                                       *)
(***************************************************************************)
LikeFamilies == {"article", "resource"}
ParentTable(fam) == IF fam = "article" THEN "articles" ELSE "resources"
LikesTable(fam) == IF fam = "article" THEN "article_likes" ELSE "resource_likes"
SubjectCount(fam) == IF fam = "article" THEN cfg.ARTICLE_COUNT ELSE cfg.RESOURCE_COUNT
MaxLikes(fam) == IF fam = "article" THEN MaxArticleLikes ELSE MaxResourceLikes
LikesLoop(fam) == IF fam = "article" THEN "al_loop" ELSE "rl_loop"
LikesInner(fam) == IF fam = "article" THEN "al_likes" ELSE "rl_likes"

\* connection = pymysql.connect(**DB_CONFIG); the article loop starts
LikesConnect ==
    /\ pc = "likes_start"
    /\ pc' = "al_loop"
    /\ conn' = Connected
    /\ UNCHANGED <<cfg, pools, db0, db, tx, seq, i, n, cur, commits, staged, flushed, failed,
                   crashed, exitCode, last, main, drew>>

\* for article_id in range(1, ARTICLE_COUNT + 1): like_count = random.randint(0, 200)
LikesBegin(fam) ==
    /\ pc = LikesLoop(fam)
    /\ i < SubjectCount(fam)
    /\ i' = i + 1
    /\ cur' = i + 1
    /\ n' \in 0..MaxLikes(fam)
    /\ pc' = LikesInner(fam)
    /\ last' = [kind |-> "subject", table |-> LikesTable(fam), subject |-> i + 1,
                before |-> CountPairs(tx[LikesTable(fam)], i + 1), drawn |-> {}]
    /\ UNCHANGED <<cfg, pools, db0, conn, db, tx, seq, commits, staged, flushed, failed, crashed,
                   exitCode, main, drew>>

\* one pass of "for _ in range(like_count)": draw user_id, SELECT, INSERT if absent
LikesAttempt(fam) ==
    /\ pc = LikesInner(fam)
    /\ n > 0
    /\ \E u \in 1..cfg.USER_COUNT :
         LET table == LikesTable(fam)
             t2 == TryInsert(tx, table, cur, u)
         IN /\ Write(t2, IF t2 = tx THEN {} ELSE {<<table, <<cur, u>>>>})
            /\ last' = [kind |-> "like", table |-> table, subject |-> cur,
                        actor |-> u, present |-> PairExists(tx, table, cur, u),
                        tableBefore |-> tx[table],
                        before |-> last.before, drawn |-> last.drawn \cup {u}]
    /\ n' = n - 1
    /\ UNCHANGED <<cfg, pools, db0, conn, pc, seq, i, cur, failed, crashed, exitCode, main, drew>>

\* UPDATE <parent> SET like_count = (SELECT COUNT(*) FROM <likes> WHERE ...)
RecountLikesAdding(t, fam) ==
    [t EXCEPT ![ParentTable(fam)] =
        [id \in DOMAIN @ |->
            [@[id] EXCEPT !.like_count = @ + CountPairs(t[LikesTable(fam)], id)]]]
RecountLikes(t, fam) ==
    [t EXCEPT ![ParentTable(fam)] =
        [id \in DOMAIN @ |->
            [@[id] EXCEPT !.like_count = CountPairs(t[LikesTable(fam)], id)]]]

\* end of one article/resource: "if article_id % 1000 == 0: connection.commit()"
LikesEndRecounting(fam) ==
    /\ pc = LikesInner(fam)
    /\ n = 0
    /\ IF AtBatchEnd(cur) THEN WriteCommit(RecountLikes(tx, fam), {}) ELSE Write(tx, {})
    /\ pc' = LikesLoop(fam)
    /\ UNCHANGED <<cfg, pools, db0, conn, seq, i, n, cur, failed, crashed, exitCode, last, main, drew>>
LikesEnd(fam) ==
    /\ pc = LikesInner(fam)
    /\ n = 0
    /\ IF AtBatchEnd(cur) THEN WriteCommit(tx, {}) ELSE Write(tx, {})
    /\ pc' = LikesLoop(fam)
    /\ UNCHANGED <<cfg, pools, db0, conn, seq, i, n, cur, failed, crashed, exitCode, last, main, drew>>

\* after the loop: the UPDATE and connection.commit(); then the resource
\* loop, or the end of the try block
LikesRollup(fam) ==
    /\ pc = LikesLoop(fam)
    /\ i = SubjectCount(fam)
    /\ WriteCommit(RecountLikes(tx, fam), {})
    /\ pc' = IF fam = "article" THEN "rl_loop" ELSE "finally"
    /\ i' = 0
    /\ n' = 0
    /\ cur' = 0
    /\ last' = [kind |-> "rollup", fam |-> fam, pending |-> staged]
    /\ UNCHANGED <<cfg, pools, db0, conn, seq, failed, crashed, exitCode, main, drew>>

\* a SELECT, INSERT, UPDATE or commit of generate_likes raises
LikesRaise ==
    /\ \E fam \in LikeFamilies :
         \/ pc = LikesInner(fam) /\ (n > 0 \/ AtBatchEnd(cur))
         \/ pc = LikesLoop(fam) /\ i = SubjectCount(fam)
    /\ Abort

(***************************************************************************)
(* generate_comments.py                                                    *)
(***************************************************************************)
CommentStatuses == {0, 1, 2}
CommentsTable(fam) == IF fam = "article" THEN "article_comments" ELSE "resource_comments"
CommentLikesTable(fam) ==
    IF fam = "article" THEN "article_comment_likes" ELSE "resource_comment_likes"
CommentsLoop(fam) == IF fam = "article" THEN "ac_loop" ELSE "rc_loop"
CommentsInner(fam) == IF fam = "article" THEN "ac_likes" ELSE "rc_likes"

\* article_comment_count = int(COMMENT_COUNT * 0.7); the float product
\* truncates to 7 * COMMENT_COUNT div 10 for every COMMENT_COUNT below 40
ArticleCommentCount == (cfg.COMMENT_COUNT * 7) \div 10
ResourceCommentCount == cfg.COMMENT_COUNT - ArticleCommentCount
CommentCount(fam) ==
    IF fam = "article" THEN ArticleCommentCount ELSE ResourceCommentCount

\* where control goes when a comment loop has no iteration left
AfterCommentLoop(fam) ==
    IF fam = "article" /\ ResourceCommentCount > 0 THEN "rc_loop" ELSE "c_rollup"

\* SELECT id, user_id FROM <comments> WHERE <subject> = s AND parent_id = 0
\* AND status = 1
ParentCandidatesAnyLevel(t, table, s) ==
    {[id |-> c.id, user_id |-> c.user_id] :
        c \in {r \in t[table] : r.subject = s /\ r.status = 1}}
ParentCandidatesAnyStatus(t, table, s) ==
    {[id |-> c.id, user_id |-> c.user_id] :
        c \in {r \in t[table] : r.subject = s /\ r.parent_id = 0}}
ParentCandidatesOtherTable(t, table, s) ==
    {[id |-> c.id, user_id |-> c.user_id] :
        c \in {r \in t[CHOOSE o \in CommentTables : o # table] :
                  r.subject = s /\ r.parent_id = 0 /\ r.status = 1}}
ParentCandidates(t, table, s) ==
    {[id |-> c.id, user_id |-> c.user_id] :
        c \in {r \in t[table] : r.subject = s /\ r.parent_id = 0 /\ r.status = 1}}

\* ORDER BY RAND() LIMIT 1; cursor.fetchone(): one of the rows, or None
None == [id |-> 0, user_id |-> 0]
FetchOne(rows) == IF rows = {} THEN {None} ELSE rows

\* parent_id, root_id and reply_to_user_id of the new comment: the three
\* assignments of "if parent_result:" or those of its "else:"
ThreadFieldsZeroReplyTo(found) ==
    IF found # None
    THEN [parent_id |-> found.id, root_id |-> found.id, reply_to_user_id |-> found.user_id]
    ELSE [parent_id |-> 0, root_id |-> 0, reply_to_user_id |-> 0]
ThreadFieldsReplyToId(found) ==
    IF found # None
    THEN [parent_id |-> found.id, root_id |-> found.id, reply_to_user_id |-> found.id]
    ELSE [parent_id |-> 0, root_id |-> 0, reply_to_user_id |-> NULL]
ThreadFields(found) ==
    IF found # None
    THEN [parent_id |-> found.id, root_id |-> found.id, reply_to_user_id |-> found.user_id]
    ELSE [parent_id |-> 0, root_id |-> 0, reply_to_user_id |-> NULL]

\* the row of INSERT INTO <comments> (...), with comment_id = cursor.lastrowid
CommentRow(id, s, u, found, status) ==
    [id |-> id, subject |-> s, user_id |-> u, status |-> status,
     parent_id |-> ThreadFields(found).parent_id,
     root_id |-> ThreadFields(found).root_id,
     reply_to_user_id |-> ThreadFields(found).reply_to_user_id]

\* the parent lookup runs only "if random.random() > 0.9"
Lookups(reply) == IF reply THEN 1 ELSE 0

\* connection = pymysql.connect(**DB_CONFIG); the first loop with an iteration
CommentsConnect ==
    /\ pc = "comments_start"
    /\ pc' = IF ArticleCommentCount > 0 THEN "ac_loop" ELSE AfterCommentLoop("article")
    /\ conn' = Connected
    /\ UNCHANGED <<cfg, pools, db0, db, tx, seq, i, n, cur, commits, staged, flushed, failed,
                   crashed, exitCode, last, main, drew>>

\* one pass of "for i in range(article_comment_count)" up to the like loop:
\* the draws, the parent lookup, the INSERT and the draw of the like count
CommentInsert(fam) ==
    /\ pc = CommentsLoop(fam)
    /\ i < CommentCount(fam)
    /\ \E s \in 1..SubjectCount(fam), u \in 1..cfg.USER_COUNT, reply \in BOOLEAN,
          status \in CommentStatuses, likes \in 0..MaxCommentLikes :
         LET table == CommentsTable(fam)
             rows == IF Lookups(reply) > 0 THEN ParentCandidates(tx, table, s) ELSE {}
         IN \E found \in FetchOne(rows) :
              LET id == seq[table]
                  row == CommentRow(id, s, u, found, status)
              IN /\ Write([tx EXCEPT ![table] = @ \cup {row}], {<<table, id>>})
                 /\ seq' = [seq EXCEPT ![table] = @ + 1]
                 /\ cur' = id
                 /\ n' = likes
                 /\ drew' = (drew \/ reply)
                 /\ last' = [kind |-> "comment", table |-> table, row |-> row,
                             reply |-> reply, lookups |-> Lookups(reply),
                             candidates |-> {c.id : c \in rows},
                             visible |-> {c.id : c \in db[table]}]
    /\ pc' = CommentsInner(fam)
    /\ UNCHANGED <<cfg, pools, db0, conn, i, failed, crashed, exitCode, main>>

\* one pass of "for _ in range(like_count)" after a comment's INSERT
CommentLikeAttempt(fam) ==
    /\ pc = CommentsInner(fam)
    /\ n > 0
    /\ \E u \in 1..cfg.USER_COUNT :
         LET table == CommentLikesTable(fam)
             t2 == TryInsert(tx, table, cur, u)
         IN /\ Write(t2, IF t2 = tx THEN {} ELSE {<<table, <<cur, u>>>>})
            /\ last' = [kind |-> "like", table |-> table, subject |-> cur,
                        actor |-> u, present |-> PairExists(tx, table, cur, u),
                        tableBefore |-> tx[table],
                        before |-> 0, drawn |-> {}]
    /\ n' = n - 1
    /\ UNCHANGED <<cfg, pools, db0, conn, pc, seq, i, cur, failed, crashed, exitCode, main, drew>>

\* end of the pass: "if (i + 1) % 1000 == 0: connection.commit()"
CommentEndCommitting(fam) ==
    /\ pc = CommentsInner(fam)
    /\ n = 0
    /\ IF AtBatchEnd(i + 1) \/ i + 1 = CommentCount(fam)
       THEN WriteCommit(tx, {}) ELSE Write(tx, {})
    /\ i' = IF i + 1 < CommentCount(fam) THEN i + 1 ELSE 0
    /\ pc' = IF i + 1 < CommentCount(fam) THEN CommentsLoop(fam) ELSE AfterCommentLoop(fam)
    /\ UNCHANGED <<cfg, pools, db0, conn, seq, n, cur, failed, crashed, exitCode, last, main, drew>>
CommentEnd(fam) ==
    /\ pc = CommentsInner(fam)
    /\ n = 0
    /\ IF AtBatchEnd(i + 1) THEN WriteCommit(tx, {}) ELSE Write(tx, {})
    /\ i' = IF i + 1 < CommentCount(fam) THEN i + 1 ELSE 0
    /\ pc' = IF i + 1 < CommentCount(fam) THEN CommentsLoop(fam) ELSE AfterCommentLoop(fam)
    /\ UNCHANGED <<cfg, pools, db0, conn, seq, n, cur, failed, crashed, exitCode, last, main, drew>>

\* UPDATE <parent> SET comment_count = (SELECT COUNT(*) FROM <comments>
\*                                      WHERE <subject> = id AND status = 1)
RecountCommentsCommitted(t, fam) ==
    [t EXCEPT ![ParentTable(fam)] =
        [id \in DOMAIN @ |->
            [@[id] EXCEPT !.comment_count =
                Cardinality({c \in db[CommentsTable(fam)] :
                                c.subject = id /\ c.status = 1})]]]
RecountCommentsAdding(t, fam) ==
    [t EXCEPT ![ParentTable(fam)] =
        [id \in DOMAIN @ |->
            [@[id] EXCEPT !.comment_count =
                @ + Cardinality({c \in t[CommentsTable(fam)] :
                                    c.subject = id /\ c.status = 1})]]]
RecountComments(t, fam) ==
    [t EXCEPT ![ParentTable(fam)] =
        [id \in DOMAIN @ |->
            [@[id] EXCEPT !.comment_count =
                Cardinality({c \in t[CommentsTable(fam)] :
                                c.subject = id /\ c.status = 1})]]]

\* after both loops: the two UPDATEs and the last connection.commit()
CommentsRollup ==
    /\ pc = "c_rollup"
    /\ WriteCommit(RecountComments(RecountComments(tx, "article"), "resource"), {})
    /\ pc' = "finally"
    /\ n' = 0
    /\ cur' = 0
    /\ last' = [kind |-> "rollup", fam |-> "comments", pending |-> staged]
    /\ UNCHANGED <<cfg, pools, db0, conn, seq, i, failed, crashed, exitCode, main, drew>>

\* a SELECT, INSERT, UPDATE or commit of generate_comments raises
CommentsRaise ==
    /\ \/ \E fam \in LikeFamilies :
            \/ pc = CommentsLoop(fam)
            \/ pc = CommentsInner(fam) /\ (n > 0 \/ AtBatchEnd(i + 1))
       \/ pc = "c_rollup"
    /\ Abort

(***************************************************************************)
(* generate_users.py                                                       *)
(***************************************************************************)
\* connection = pymysql.connect(**DB_CONFIG)
UsersConnect ==
    /\ pc = "users_start"
    /\ pc' = "u_auth"
    /\ conn' = Connected
    /\ UNCHANGED <<cfg, pools, db0, db, tx, seq, i, n, cur, commits, staged, flushed, failed,
                   crashed, exitCode, last, main, drew>>

\* for i in range(USER_COUNT): INSERT INTO user_auth; user_id = cursor.lastrowid
UserAuthInsert ==
    /\ pc = "u_auth"
    /\ i < cfg.USER_COUNT
    /\ LET id == seq.user_auth
       IN /\ Write([tx EXCEPT !.user_auth = @ \cup {id}], {<<"user_auth", id>>})
          /\ seq' = [seq EXCEPT !.user_auth = @ + 1]
          /\ cur' = id
    /\ pc' = "u_profile"
    /\ last' = [kind |-> "user"]
    /\ UNCHANGED <<cfg, pools, db0, conn, i, n, failed, crashed, exitCode, main, drew>>

\* INSERT INTO user_profile (user_id, ...); "if (i + 1) % 1000 == 0: commit"
UserProfileInsert ==
    /\ pc = "u_profile"
    /\ LET t2 == [tx EXCEPT !.user_profile = @ (+) SetToBag({cur})]
           rows == {<<"user_profile", cur>>}
       IN IF AtBatchEnd(i + 1) THEN WriteCommit(t2, rows) ELSE Write(t2, rows)
    /\ i' = i + 1
    /\ pc' = "u_auth"
    /\ UNCHANGED <<cfg, pools, db0, conn, seq, n, cur, failed, crashed, exitCode, last, main, drew>>

\* after the loop: the last connection.commit() and the print of the count
UsersFinish ==
    /\ pc = "u_auth"
    /\ i = cfg.USER_COUNT
    /\ WriteCommit(tx, {})
    /\ pc' = "finally"
    /\ cur' = 0
    /\ last' = [kind |-> "final", table |-> "user_auth", reported |-> cfg.USER_COUNT]
    /\ UNCHANGED <<cfg, pools, db0, conn, seq, i, n, failed, crashed, exitCode, main, drew>>

\* an INSERT or a commit of generate_users raises
UsersRaise ==
    /\ pc \in {"u_auth", "u_profile"}
    /\ Abort

(***************************************************************************)
(* generate_articles.py                                                    *)
(***************************************************************************)
Min(a, b) == IF a < b THEN a ELSE b

\* like_count = random.randint(0, 1000), comment_count = random.randint(0, 500):
\* the counters an articles (or resources) row is created with, two of them
InitialCounters == {0, 3}

\* random.randint(1, min(3, len(category_ids))) / (1, min(5, len(tag_ids)))
SampleSizeCap(table) == IF table = "article_categories" THEN 3 ELSE 5

\* random.sample(ids, random.randint(1, min(cap, len(ids)))): the samples it
\* can return; none when ids is empty (random.randint(1, 0) raises ValueError)
SamplesAllowingNone(ids, cap) ==
    {S \in SUBSET ids : Cardinality(S) <= Min(cap, Cardinality(ids))}
Samples(ids, cap) ==
    {S \in SUBSET ids : 1 <= Cardinality(S) /\ Cardinality(S) <= Min(cap, Cardinality(ids))}

\* INSERT INTO <relations> (article_id, <id>, created_at) for every id of the
\* sample, each followed by UPDATE <pool table> SET article_count = article_count + 1
RelateWithoutCount(t, relations, poolTable, article, S) ==
    [t EXCEPT ![relations] = @ (+) SetToBag({<<article, c>> : c \in S})]
Relate(t, relations, poolTable, article, S) ==
    [t EXCEPT ![relations] = @ (+) SetToBag({<<article, c>> : c \in S}),
              ![poolTable] = [c \in DOMAIN @ |-> IF c \in S THEN @[c] + 1 ELSE @[c]]]

\* connection = pymysql.connect(**DB_CONFIG)
ArticlesConnect ==
    /\ pc = "articles_start"
    /\ pc' = "art_load"
    /\ conn' = Connected
    /\ UNCHANGED <<cfg, pools, db0, db, tx, seq, i, n, cur, commits, staged, flushed,
                   failed, crashed, exitCode, last, main, drew>>

\* category_ids and tag_ids: SELECT id FROM article_categories / article_tags
ArticlesLoad ==
    /\ pc = "art_load"
    /\ pools' = [t \in {"article_categories", "article_tags"} |-> DOMAIN tx[t]]
    /\ pc' = "art_loop"
    /\ UNCHANGED <<cfg, db0, conn, db, tx, seq, i, n, cur, commits, staged, flushed,
                   failed, crashed, exitCode, last, main, drew>>

\* for i in range(ARTICLE_COUNT): INSERT INTO articles, article_id =
\* cursor.lastrowid, and the INSERTs into article_code_blocks
ArticleInsert ==
    /\ pc = "art_loop"
    /\ i < cfg.ARTICLE_COUNT
    /\ \E u \in 1..cfg.USER_COUNT, likes \in InitialCounters, blocks \in 0..MaxCodeBlocks :
         LET id == seq.articles
             row == [like_count |-> likes, comment_count |-> likes]
             codes == {<<id, j>> : j \in 0..(blocks - 1)}
             t2 == [tx EXCEPT !.articles = (id :> row) @@ @,
                              !.article_code_blocks = @ (+) SetToBag(codes)]
         IN /\ Write(t2, {<<"articles", id>>}
                           \cup {<<"article_code_blocks", c>> : c \in codes})
            /\ seq' = [seq EXCEPT !.articles = @ + 1]
            /\ cur' = id
            /\ last' = [kind |-> "article", id |-> id, user_id |-> u]
    /\ pc' = "art_cats"
    /\ UNCHANGED <<cfg, pools, db0, conn, i, n, failed, crashed, exitCode, main, drew>>

\* article_categories = random.sample(category_ids, ...); for category_id in ...
ArticleCategories ==
    /\ pc = "art_cats"
    /\ \E S \in Samples(pools["article_categories"], SampleSizeCap("article_categories")) :
         Write(Relate(tx, "article_category_relations", "article_categories", cur, S),
               {<<"article_category_relations", <<cur, c>>>> : c \in S})
    /\ pc' = "art_tags"
    /\ UNCHANGED <<cfg, pools, db0, conn, seq, i, n, cur, failed, crashed, exitCode,
                   last, main, drew>>

\* article_tags = random.sample(tag_ids, ...); for tag_id in ...; then
\* "if (i + 1) % 1000 == 0: connection.commit()"
ArticleTags ==
    /\ pc = "art_tags"
    /\ \E S \in Samples(pools["article_tags"], SampleSizeCap("article_tags")) :
         LET t2 == Relate(tx, "article_tag_relations", "article_tags", cur, S)
             rows == {<<"article_tag_relations", <<cur, c>>>> : c \in S}
         IN IF AtBatchEnd(i + 1) THEN WriteCommit(t2, rows) ELSE Write(t2, rows)
    /\ i' = i + 1
    /\ pc' = "art_loop"
    /\ UNCHANGED <<cfg, pools, db0, conn, seq, n, cur, failed, crashed, exitCode,
                   last, main, drew>>

\* after the loop: the last connection.commit() and the print of the count
ArticlesFinish ==
    /\ pc = "art_loop"
    /\ i = cfg.ARTICLE_COUNT
    /\ WriteCommit(tx, {})
    /\ pc' = "finally"
    /\ cur' = 0
    /\ last' = [kind |-> "final", table |-> "articles", reported |-> cfg.ARTICLE_COUNT]
    /\ UNCHANGED <<cfg, pools, db0, conn, seq, i, n, failed, crashed, exitCode, main, drew>>

\* a SELECT, INSERT, UPDATE or commit of generate_articles raises, or
\* random.randint(1, 0) does on an empty category_ids or tag_ids
ArticlesRaise ==
    /\ pc \in {"art_load", "art_loop", "art_cats", "art_tags"}
    /\ Abort

(***************************************************************************)
(* generate_resources.py                                                   *)
(***************************************************************************)
\* category_id = random.choice(category_ids) if category_ids and
\* random.random() > 0.2 else None
CategoryChoices(ids) == ids \cup {NULL}

\* "if category_id:": None and 0 are false
Truthy(v) == v # NULL /\ v # 0

\* UPDATE resource_categories SET resource_count = resource_count + 1 WHERE id = c
CountResource(t, c) ==
    [t EXCEPT !.resource_categories =
        [k \in DOMAIN @ |-> IF k = c THEN @[k] + 1 ELSE @[k]]]

\* connection = pymysql.connect(**DB_CONFIG)
ResourcesConnect ==
    /\ pc = "resources_start"
    /\ pc' = "res_load"
    /\ conn' = Connected
    /\ UNCHANGED <<cfg, pools, db0, db, tx, seq, i, n, cur, commits, staged, flushed,
                   failed, crashed, exitCode, last, main, drew>>

\* category_ids: SELECT id FROM resource_categories
ResourcesLoad ==
    /\ pc = "res_load"
    /\ pools' = [t \in {"resource_categories"} |-> DOMAIN tx[t]]
    /\ pc' = "res_loop"
    /\ UNCHANGED <<cfg, db0, conn, db, tx, seq, i, n, cur, commits, staged, flushed,
                   failed, crashed, exitCode, last, main, drew>>

\* for i in range(RESOURCE_COUNT): the draws, INSERT INTO resources,
\* resource_id = cursor.lastrowid, the INSERTs into resource_images (for 60%
\* of the resources) and into resource_tags
ResourceInsert ==
    /\ pc = "res_loop"
    /\ i < cfg.RESOURCE_COUNT
    /\ \E c \in CategoryChoices(pools["resource_categories"]),
          counter \in InitialCounters, images \in 0..MaxResourceImages,
          tags \in 1..MaxResourceTags :
         LET id == seq.resources
             row == [like_count |-> counter, comment_count |-> counter,
                     category_id |-> c]
             imgs == {<<id, j>> : j \in 0..(images - 1)}
             tgs == {<<id, j>> : j \in 0..(tags - 1)}
             t2 == [tx EXCEPT !.resources = (id :> row) @@ @,
                              !.resource_images = @ (+) SetToBag(imgs),
                              !.resource_tags = @ (+) SetToBag(tgs)]
         IN /\ Write(t2, {<<"resources", id>>}
                           \cup {<<"resource_images", e>> : e \in imgs}
                           \cup {<<"resource_tags", e>> : e \in tgs})
            /\ seq' = [seq EXCEPT !.resources = @ + 1]
            /\ cur' = id
            /\ last' = [kind |-> "resource", id |-> id, category_id |-> c]
    /\ pc' = "res_count"
    /\ UNCHANGED <<cfg, pools, db0, conn, i, n, failed, crashed, exitCode, main, drew>>

\* "if category_id: UPDATE resource_categories ..."; then
\* "if (i + 1) % 1000 == 0: connection.commit()"
ResourceCount ==
    /\ pc = "res_count"
    /\ LET t2 == IF Truthy(last.category_id) THEN CountResource(tx, last.category_id)
                 ELSE tx
       IN IF AtBatchEnd(i + 1) THEN WriteCommit(t2, {}) ELSE Write(t2, {})
    /\ i' = i + 1
    /\ pc' = "res_loop"
    /\ UNCHANGED <<cfg, pools, db0, conn, seq, n, cur, failed, crashed, exitCode,
                   last, main, drew>>

\* after the loop: the last connection.commit() and the print of the count
ResourcesFinish ==
    /\ pc = "res_loop"
    /\ i = cfg.RESOURCE_COUNT
    /\ WriteCommit(tx, {})
    /\ pc' = "finally"
    /\ cur' = 0
    /\ last' = [kind |-> "final", table |-> "resources", reported |-> cfg.RESOURCE_COUNT]
    /\ UNCHANGED <<cfg, pools, db0, conn, seq, i, n, failed, crashed, exitCode, main, drew>>

\* a SELECT, INSERT, UPDATE or commit of generate_resources raises
ResourcesRaise ==
    /\ pc \in {"res_load", "res_loop", "res_count"}
    /\ Abort

(***************************************************************************)
(* generate_chat_messages.py                                               *)
(***************************************************************************)
\* connection = pymysql.connect(**DB_CONFIG)
ChatConnect ==
    /\ pc = "chat_start"
    /\ pc' = "chat_load"
    /\ conn' = Connected
    /\ UNCHANGED <<cfg, pools, db0, db, tx, seq, i, n, cur, commits, staged, flushed,
                   failed, crashed, exitCode, last, main, drew>>

\* users = SELECT id, username FROM user_auth LIMIT 10000;
\* "if not users: print(...); return" leaves the try block for "finally"
ChatLoad ==
    /\ pc = "chat_load"
    /\ pools' = [t \in {"user_auth"} |-> tx[t]]
    /\ pc' = IF tx.user_auth = {} THEN "finally" ELSE "chat_loop"
    /\ last' = [kind |-> IF tx.user_auth = {} THEN "return" ELSE "load"]
    /\ UNCHANGED <<cfg, db0, conn, db, tx, seq, i, n, cur, commits, staged, flushed,
                   failed, crashed, exitCode, main, drew>>

\* for i in range(CHAT_MESSAGE_COUNT): user = random.choice(users); INSERT INTO
\* chat_messages; "if (i + 1) % 1000 == 0: connection.commit()"
ChatInsert ==
    /\ pc = "chat_loop"
    /\ i < cfg.CHAT_MESSAGE_COUNT
    /\ \E u \in pools["user_auth"] :
         LET id == seq.chat_messages
             t2 == [tx EXCEPT !.chat_messages = @ \cup {[id |-> id, user_id |-> u]}]
             rows == {<<"chat_messages", id>>}
         IN /\ IF AtBatchEnd(i + 1) THEN WriteCommit(t2, rows) ELSE Write(t2, rows)
            /\ seq' = [seq EXCEPT !.chat_messages = @ + 1]
            /\ last' = [kind |-> "chat", id |-> id, user_id |-> u]
    /\ i' = i + 1
    /\ UNCHANGED <<cfg, pools, db0, conn, pc, n, cur, failed, crashed, exitCode, main, drew>>

\* after the loop: the last connection.commit() and the print of the count
ChatFinish ==
    /\ pc = "chat_loop"
    /\ i = cfg.CHAT_MESSAGE_COUNT
    /\ WriteCommit(tx, {})
    /\ pc' = "finally"
    /\ last' = [kind |-> "final", table |-> "chat_messages",
                reported |-> cfg.CHAT_MESSAGE_COUNT]
    /\ UNCHANGED <<cfg, pools, db0, conn, seq, i, n, cur, failed, crashed, exitCode,
                   main, drew>>

\* a SELECT, INSERT or commit of generate_chat_messages raises
ChatRaise ==
    /\ pc \in {"chat_load", "chat_loop"}
    /\ Abort

(***************************************************************************)
(* main.py.  Every script has the same frame: connect; try: the generation *)
(* pass; except Exception: print, rollback; finally: close.  Under main    *)
(* the pass is one step and the tables are left out.                       *)
(***************************************************************************)
scripts ==
    <<"generate_users.py", "generate_articles.py", "generate_resources.py",
      "generate_comments.py", "generate_chat_messages.py", "generate_likes.py",
      "generate_login_history.py", "generate_statistics.py">>

\* run_script: subprocess.run([sys.executable, script_name], ...) starts the child
MainRunScript ==
    /\ main.pc = "loop"
    /\ main.idx < Len(scripts)
    /\ main' = [main EXCEPT !.pc = "wait"]
    /\ pc' = "script_start"
    /\ failed' = FALSE
    /\ crashed' = FALSE
    /\ exitCode' = -1
    /\ conn' = NoConnection
    /\ UNCHANGED <<cfg, pools, db0, db, tx, seq, i, n, cur, commits, staged, flushed, last, drew>>

\* the child: connection = pymysql.connect(**DB_CONFIG), before "try:"; an
\* exception here is caught by nothing
ScriptConnect ==
    /\ pc = "script_start"
    /\ \/ pc' = "script_pass" /\ conn' = Connected /\ UNCHANGED <<crashed, exitCode>>
       \/ pc' = "exit" /\ crashed' = TRUE /\ exitCode' = 1 /\ UNCHANGED conn
    /\ UNCHANGED <<cfg, pools, db0, db, tx, seq, i, n, cur, commits, staged, flushed, failed,
                   last, main, drew>>

\* the child: the try block runs to its end (or to an early return)
ScriptPass ==
    /\ pc = "script_pass"
    /\ pc' = "finally"
    /\ UNCHANGED <<cfg, pools, db0, conn, db, tx, seq, i, n, cur, commits, staged, flushed, failed,
                   crashed, exitCode, last, main, drew>>

\* the child: a database call of the try block raises
ScriptRaise ==
    /\ pc = "script_pass"
    /\ Abort

\* what run_script returns for the child's exit status:
\* "if result.returncode == 0: ... else: return False", "return True"
RunScriptResultIgnoringStatus(returncode) == TRUE
RunScriptResult(returncode) == returncode = 0

\* main's loop body after run_script returned: "success_count += 1", or
\* print and "break"
MainCollect ==
    /\ main.pc = "wait"
    /\ pc = "exit"
    /\ main' = [pc |-> IF RunScriptResult(exitCode) THEN "loop" ELSE "summary",
                idx |-> main.idx + 1,
                success_count |-> main.success_count
                                    + (IF RunScriptResult(exitCode) THEN 1 ELSE 0),
                ran |-> Append(main.ran, [script |-> scripts[main.idx + 1],
                                          failed |-> failed,
                                          returncode |-> exitCode]),
                exit |-> main.exit]
    /\ pc' = "none"
    /\ UNCHANGED <<cfg, pools, db0, conn, db, tx, seq, i, n, cur, commits, staged, flushed, failed,
                   crashed, exitCode, last, drew>>

\* after the loop: the summary is printed and main returns; nothing calls
\* sys.exit, so the interpreter ends with status 0
MainSummary ==
    /\ \/ main.pc = "summary"
       \/ main.pc = "loop" /\ main.idx = Len(scripts)
    /\ main' = [main EXCEPT !.pc = "done", !.exit = 0]
    /\ UNCHANGED <<cfg, pools, db0, conn, pc, db, tx, seq, i, n, cur, commits, staged, flushed, failed,
                   crashed, exitCode, last, drew>>

(***************************************************************************)
(* Initial states.  On a schema whose AUTO_INCREMENT counters stand at 1 a *)
(* complete run of a parent generator leaves the ids 1..N ("full"); a run  *)
(* that aborted in its last batch leaves the ids of the batches it had     *)
(* committed ("short"); a complete run after a run that rolled one insert  *)
(* back leaves 2..N+1 ("shifted").                                         *)
(***************************************************************************)
PoolKinds == {"full", "short", "shifted"}
Pool(kind, N) ==
    CASE kind = "full" -> 1..N
      [] kind = "shifted" -> 2..(N + 1)
      [] kind = "short" -> 1..(IF N = 0 THEN 0 ELSE ((N - 1) \div BatchSize) * BatchSize)

\* the articles/resources rows with the ids and the counter value given
EntityRows(ids, c) == [id \in ids |-> [like_count |-> c, comment_count |-> c]]

\* the parent tables a dependent generator finds
ParentTables(c, kind, counter) ==
    [EmptyTables EXCEPT !.user_auth = Pool(kind, c.USER_COUNT),
                        !.user_profile = SetToBag(Pool(kind, c.USER_COUNT)),
                        !.articles = EntityRows(Pool(kind, c.ARTICLE_COUNT), counter),
                        !.resources = EntityRows(Pool(kind, c.RESOURCE_COUNT), counter)]

\* what an earlier pass of a like loop left in a relation table
SeedPairs == {EmptyBag, SetToBag({<<1, 1>>})}

\* what an earlier pass of a comment loop left in a comment table: nothing,
\* or a top-level comment with one reply
SeedThread ==
    {[id |-> 1, subject |-> 1, user_id |-> 1, status |-> 1,
      parent_id |-> 0, root_id |-> 0, reply_to_user_id |-> NULL],
     [id |-> 2, subject |-> 1, user_id |-> 1, status |-> 1,
      parent_id |-> 1, root_id |-> 1, reply_to_user_id |-> 1]}

SeqAfter(rows) == Cardinality(rows) + 1

\* main before its loop; exit is the status of main's process, -1 while it runs
MainIdle == [pc |-> "none", idx |-> 0, success_count |-> 0, ran |-> <<>>, exit |-> -1]

UsersConfigs ==
    {[USER_COUNT |-> N, ARTICLE_COUNT |-> 0, RESOURCE_COUNT |-> 0, COMMENT_COUNT |-> 0,
     CHAT_MESSAGE_COUNT |-> 0] :
        N \in 0..MaxUsers}
LikesConfigs ==
    {[USER_COUNT |-> 2, ARTICLE_COUNT |-> 2, RESOURCE_COUNT |-> 2, COMMENT_COUNT |-> 0,
     CHAT_MESSAGE_COUNT |-> 0]}
\* the runs of generate_comments: the counts, and the tables it starts on
\* (parent pool, initial counter, comments of an earlier pass)
OneUser ==
    [USER_COUNT |-> 1, ARTICLE_COUNT |-> 2, RESOURCE_COUNT |-> 1, COMMENT_COUNT |-> 3,
     CHAT_MESSAGE_COUNT |-> 0]
OneArticle ==
    [USER_COUNT |-> 2, ARTICLE_COUNT |-> 1, RESOURCE_COUNT |-> 1, COMMENT_COUNT |-> 3,
     CHAT_MESSAGE_COUNT |-> 0]
CommentsRuns ==
    {<<OneUser, "full", 0, {}>>, <<OneUser, "full", 3, SeedThread>>,
     <<OneUser, "short", 0, SeedThread>>, <<OneUser, "shifted", 3, {}>>,
     <<OneArticle, "full", 3, SeedThread>>}
\* runs whose article comments do not fill a whole number of batches: one
\* article comment and one resource comment; three and two
TwoComments ==
    [USER_COUNT |-> 1, ARTICLE_COUNT |-> 1, RESOURCE_COUNT |-> 1, COMMENT_COUNT |-> 2,
     CHAT_MESSAGE_COUNT |-> 0]
FiveComments ==
    [USER_COUNT |-> 1, ARTICLE_COUNT |-> 1, RESOURCE_COUNT |-> 1, COMMENT_COUNT |-> 5,
     CHAT_MESSAGE_COUNT |-> 0]
TrailingRuns ==
    {<<TwoComments, "full", 3, SeedThread>>, <<FiveComments, "full", 0, {}>>}

\* a script's process before its first statement
InitProcess(start) ==
    /\ pc = start
    /\ tx = db
    /\ i = 0
    /\ n = 0
    /\ cur = 0
    /\ commits = 0
    /\ staged = {}
    /\ flushed = {}
    /\ failed = FALSE
    /\ crashed = FALSE
    /\ exitCode = -1
    /\ last = [kind |-> "none"]
    /\ drew = FALSE
    /\ pools = NoPools
    /\ db0 = db
    /\ conn = NoConnection
    /\ main = MainIdle

InitUsers ==
    /\ cfg \in UsersConfigs
    /\ db = EmptyTables
    /\ \E first \in {1, 2} :
         seq = [FreshSeq EXCEPT !.user_auth = first]
    /\ InitProcess("users_start")

InitLikes ==
    /\ cfg \in LikesConfigs
    /\ \E kind \in PoolKinds, counter \in InitialCounters, seed \in SeedPairs :
         db = [ParentTables(cfg, kind, counter) EXCEPT !.article_likes = seed,
                                                       !.resource_likes = seed]
    /\ seq = FreshSeq
    /\ InitProcess("likes_start")

InitComments ==
    /\ \E run \in CommentsRuns :
         /\ cfg = run[1]
         /\ db = [ParentTables(run[1], run[2], run[3]) EXCEPT
                     !.article_comments = run[4], !.resource_comments = run[4]]
         /\ seq = [FreshSeq EXCEPT !.article_comments = SeqAfter(run[4]),
                                   !.resource_comments = SeqAfter(run[4])]
    /\ InitProcess("comments_start")

InitCommentsTrailing ==
    /\ \E run \in TrailingRuns :
         /\ cfg = run[1]
         /\ db = [ParentTables(run[1], run[2], run[3]) EXCEPT
                     !.article_comments = run[4], !.resource_comments = run[4]]
         /\ seq = [FreshSeq EXCEPT !.article_comments = SeqAfter(run[4]),
                                   !.resource_comments = SeqAfter(run[4])]
    /\ InitProcess("comments_start")

\* generate_articles: one user, up to three articles (fewer than a batch, one
\* batch, a batch and a trailing one), and the category and tag tables as it finds
\* them: empty, or with rows whose article_count an earlier run has raised
ArticlesConfigs ==
    {[USER_COUNT |-> 1, ARTICLE_COUNT |-> N, RESOURCE_COUNT |-> 0, COMMENT_COUNT |-> 0,
      CHAT_MESSAGE_COUNT |-> 0] : N \in 0..3}
CategoryTables == {<<>>, (1 :> 0), (1 :> 0) @@ (2 :> 4)}
TagTables == {<<>>, (1 :> 2)}

InitArticles ==
    /\ cfg \in ArticlesConfigs
    /\ \E cats \in CategoryTables, tags \in TagTables :
         db = [ParentTables(cfg, "full", 0) EXCEPT !.articles = <<>>,
                                                   !.article_categories = cats,
                                                   !.article_tags = tags]
    /\ seq = FreshSeq
    /\ InitProcess("articles_start")

\* generate_chat_messages: the user table as generate_users left it
ChatConfigs ==
    {[USER_COUNT |-> 2, ARTICLE_COUNT |-> 0, RESOURCE_COUNT |-> 0, COMMENT_COUNT |-> 0,
      CHAT_MESSAGE_COUNT |-> N] : N \in 0..MaxChatMessages}

InitChat ==
    /\ cfg \in ChatConfigs
    /\ \E kind \in PoolKinds : db = ParentTables(cfg, kind, 0)
    /\ seq = FreshSeq
    /\ InitProcess("chat_start")

\* generate_resources: one user, up to three resources, and the category table
\* as it finds it: empty, or with a row whose resource_count stands at some value
ResourcesConfigs ==
    {[USER_COUNT |-> 1, ARTICLE_COUNT |-> 0, RESOURCE_COUNT |-> N, COMMENT_COUNT |-> 0,
      CHAT_MESSAGE_COUNT |-> 0] : N \in 0..3}
ResourceCategoryTables == {<<>>, (1 :> 4)}

InitResources ==
    /\ cfg \in ResourcesConfigs
    /\ \E cats \in ResourceCategoryTables :
         db = [ParentTables(cfg, "full", 0) EXCEPT !.resources = <<>>,
                                                   !.resource_categories = cats]
    /\ seq = FreshSeq
    /\ InitProcess("resources_start")

NextResources ==
    \/ ResourcesConnect
    \/ ResourcesLoad
    \/ ResourceInsert
    \/ ResourceCount
    \/ ResourcesFinish
    \/ ResourcesRaise
    \/ Close

NextArticles ==
    \/ ArticlesConnect
    \/ ArticlesLoad
    \/ ArticleInsert
    \/ ArticleCategories
    \/ ArticleTags
    \/ ArticlesFinish
    \/ ArticlesRaise
    \/ Close

NextChat ==
    \/ ChatConnect
    \/ ChatLoad
    \/ ChatInsert
    \/ ChatFinish
    \/ ChatRaise
    \/ Close

NextUsers ==
    \/ UsersConnect
    \/ UserAuthInsert
    \/ UserProfileInsert
    \/ UsersFinish
    \/ UsersRaise
    \/ Close

NextLikes ==
    \/ LikesConnect
    \/ \E fam \in LikeFamilies :
         \/ LikesBegin(fam)
         \/ LikesAttempt(fam)
         \/ LikesEnd(fam)
         \/ LikesRollup(fam)
    \/ LikesRaise
    \/ Close

NextComments ==
    \/ CommentsConnect
    \/ \E fam \in LikeFamilies :
         \/ CommentInsert(fam)
         \/ CommentLikeAttempt(fam)
         \/ CommentEnd(fam)
    \/ CommentsRollup
    \/ CommentsRaise
    \/ Close

InitMain ==
    /\ cfg = [USER_COUNT |-> 0, ARTICLE_COUNT |-> 0, RESOURCE_COUNT |-> 0,
              COMMENT_COUNT |-> 0, CHAT_MESSAGE_COUNT |-> 0]
    /\ db = EmptyTables
    /\ seq = FreshSeq
    /\ pc = "none"
    /\ tx = db
    /\ i = 0
    /\ n = 0
    /\ cur = 0
    /\ commits = 0
    /\ staged = {}
    /\ flushed = {}
    /\ failed = FALSE
    /\ crashed = FALSE
    /\ exitCode = -1
    /\ last = [kind |-> "none"]
    /\ drew = FALSE
    /\ pools = NoPools
    /\ db0 = db
    /\ conn = NoConnection
    /\ main = [MainIdle EXCEPT !.pc = "loop"]

NextMain ==
    \/ MainRunScript
    \/ ScriptConnect
    \/ ScriptPass
    \/ ScriptRaise
    \/ Close
    \/ MainCollect
    \/ MainSummary

SpecUsers == InitUsers /\ [][NextUsers]_vars
SpecLikes == InitLikes /\ [][NextLikes]_vars
SpecComments == InitComments /\ [][NextComments]_vars
SpecCommentsTrailing == InitCommentsTrailing /\ [][NextComments]_vars
SpecMain == InitMain /\ [][NextMain]_vars
SpecArticles == InitArticles /\ [][NextArticles]_vars
SpecChat == InitChat /\ [][NextChat]_vars
SpecResources == InitResources /\ [][NextResources]_vars

\* every generator, each run on its own
Init ==
    InitUsers \/ InitArticles \/ InitResources \/ InitComments \/ InitChat \/ InitLikes
Next ==
    NextUsers \/ NextArticles \/ NextResources \/ NextComments \/ NextChat \/ NextLikes
Spec == Init /\ [][Next]_vars

(***************************************************************************)
(* Properties                                                              *)
(***************************************************************************)
Ended == pc \in {"finally", "exit"}
Succeeded == Ended /\ ~failed

CeilDiv(a, b) == (a + b - 1) \div b

Pairs(bag, s) == {e \in BagToSet(bag) : e[1] = s}

\* whether the row named r (<<table, key>>) is in the tables d
RowVisible(d, r) ==
    IF r[1] \in CommentTables \cup {"chat_messages"} THEN \E c \in d[r[1]] : c.id = r[2]
    ELSE IF r[1] = "user_auth" THEN r[2] \in d[r[1]]
    ELSE IF r[1] \in {"articles", "resources"} THEN r[2] \in DOMAIN d[r[1]]
    ELSE BagIn(r[2], d[r[1]])

\* C1: no relation table holds two rows with the same (subject_id, actor_id)
\* pair, neither among the committed rows nor in the open transaction
C1_UniquePairs ==
    \A table \in LikeTables :
        /\ \A e \in BagToSet(db[table]) : CopiesIn(e, db[table]) = 1
        /\ \A e \in BagToSet(tx[table]) : CopiesIn(e, tx[table]) = 1

\* a like loop drew a pair that an earlier pass had already committed
C1_Witness ==
    /\ last.kind = "like"
    /\ last.present
    /\ BagIn(<<last.subject, last.actor>>, db[last.table])
    /\ commits = 0

\* C2: after the rollback of a failed run no row inserted since the last
\* commit is visible and every row of the batches committed before is
C2_RollbackDiscardsBatch ==
    (Ended /\ failed) =>
        /\ \A r \in staged : ~RowVisible(db, r)
        /\ \A r \in flushed : RowVisible(db, r)

\* a run failed with a committed batch behind it and several rows in flight
C2_Witness ==
    /\ pc = "exit"
    /\ failed
    /\ flushed # {}
    /\ Cardinality(staged) >= 3

\* C3 as stated: a failure-free run over N rows commits ceil(N / T) times
C3_CeilCommits ==
    (pc = "exit" /\ ~failed) => commits = CeilDiv(cfg.USER_COUNT, BatchSize)

\* C3: a failure-free run over N rows commits N div T + 1 times: ceil(N / T)
\* times when T does not divide N, once more when it does (N = 0 included)
C3_FloorPlusOneCommits ==
    (pc = "exit" /\ ~failed) =>
        /\ commits = cfg.USER_COUNT \div BatchSize + 1
        /\ cfg.USER_COUNT % BatchSize # 0 => commits = CeilDiv(cfg.USER_COUNT, BatchSize)
        /\ cfg.USER_COUNT % BatchSize = 0 => commits = CeilDiv(cfg.USER_COUNT, BatchSize) + 1

\* a failure-free run over two full batches has ended
C3_Witness ==
    /\ pc = "exit"
    /\ ~failed
    /\ cfg.USER_COUNT = 2 * BatchSize
    /\ commits = 3

\* C4: a script whose generation pass raised (and rolled back) is the last
\* one main starts, and it is not counted in success_count
C4_FailedScriptHalts ==
    \A k \in 1..Len(main.ran) :
        main.ran[k].failed => (k = Len(main.ran) /\ main.success_count < k)

\* C5: a comment with parent_id = 0 has root_id = 0 and no reply_to_user_id
C5_TopLevelFields ==
    \A table \in CommentTables :
        \A c \in db[table] \cup tx[table] :
            c.parent_id = 0 => (c.root_id = 0 /\ c.reply_to_user_id = NULL)

\* the reply draw succeeded, the lookup found nothing, the comment is top-level
C5_Witness ==
    /\ last.kind = "comment"
    /\ last.reply
    /\ last.candidates = {}
    /\ last.row.parent_id = 0
    /\ last.row \in tx[last.table]

\* C6: among the committed rows, and among those the connection sees, the
\* parent of every reply exists in the same table and is top-level, and the
\* reply's root_id is its parent_id
ThreadsClosed(rows) ==
    \A c \in rows :
        c.parent_id # 0 =>
            /\ c.root_id = c.parent_id
            /\ \E p \in rows : p.id = c.parent_id /\ p.parent_id = 0
C6_ReplyParents ==
    \A table \in CommentTables : ThreadsClosed(db[table]) /\ ThreadsClosed(tx[table])

\* a run that committed a reply to a comment of its own was rolled back later
C6_Witness ==
    /\ pc = "exit"
    /\ failed
    /\ staged # {}
    /\ \E c \in db.article_comments :
         /\ c.parent_id # 0
         /\ <<"article_comments", c.id>> \in flushed
         /\ <<"article_comments", c.parent_id>> \in flushed

\* C7: once a rollup has run, and to the end of a run that succeeded, the
\* counter of every parent row is the number of its rows in the child table
\* (likes: all of them; comments: those with status = 1)
LikeCountsExact(t, fam) ==
    \A id \in DOMAIN t[ParentTable(fam)] :
        t[ParentTable(fam)][id].like_count = Cardinality(Pairs(t[LikesTable(fam)], id))
CommentCountsExact(t, fam) ==
    \A id \in DOMAIN t[ParentTable(fam)] :
        t[ParentTable(fam)][id].comment_count =
            Cardinality({c \in t[CommentsTable(fam)] : c.subject = id /\ c.status = 1})
C7_ExactCounters ==
    /\ (last.kind = "rollup" /\ last.fam = "article") => LikeCountsExact(db, "article")
    /\ (last.kind = "rollup" /\ last.fam = "resource") =>
          (LikeCountsExact(db, "article") /\ LikeCountsExact(db, "resource"))
    /\ (pc \in {"rl_loop", "rl_likes"}) => LikeCountsExact(db, "article")
    /\ (last.kind = "rollup" /\ last.fam = "comments") =>
          (CommentCountsExact(db, "article") /\ CommentCountsExact(db, "resource"))

\* generate_likes succeeded on articles created with the counter 3: one has
\* two likes and one has none
C7_Witness ==
    /\ pc = "exit"
    /\ ~failed
    /\ last.kind = "rollup"
    /\ last.fam = "resource"
    /\ \E a, b \in DOMAIN db.articles :
         /\ db.articles[a].comment_count = 3
         /\ db.articles[a].like_count = 2
         /\ db.articles[b].like_count = 0

\* C8: the subject and the user of every row a dependent generator inserts
\* are ids of rows of the parent tables
C8_ForeignKeysExist ==
    /\ (last.kind = "like" /\ ~last.present /\ last.table \in {"article_likes", "resource_likes"}) =>
          /\ last.actor \in tx.user_auth
          /\ last.subject \in
                DOMAIN tx[IF last.table = "article_likes" THEN "articles" ELSE "resources"]
    /\ (last.kind = "comment") =>
          /\ last.row.user_id \in tx.user_auth
          /\ last.row.subject \in
                DOMAIN tx[IF last.table = "article_comments" THEN "articles" ELSE "resources"]

\* C9: a comment is stored as a reply only after a successful reply draw and
\* to an active top-level comment of its subject; after a successful draw
\* that finds none it is stored top-level after one lookup; a run without a
\* successful draw stores COMMENT_COUNT top-level comments
RunComments(t, table) == {c \in t[table] : <<table, c.id>> \in flushed \cup staged}
C9_ReplyOnlyAfterDraw ==
    /\ (last.kind = "comment" /\ last.row.parent_id # 0) =>
          /\ last.reply
          /\ last.lookups = 1
          /\ \E p \in tx[last.table] \ {last.row} :
                /\ p.id = last.row.parent_id
                /\ p.subject = last.row.subject
                /\ p.parent_id = 0
                /\ p.status = 1
    /\ (last.kind = "comment" /\ last.reply /\ last.row.parent_id = 0) =>
          /\ last.lookups = 1
          /\ ~\E p \in tx[last.table] \ {last.row} :
                p.subject = last.row.subject /\ p.parent_id = 0 /\ p.status = 1
    /\ (last.kind = "comment" /\ ~last.reply) => last.lookups = 0
    /\ (Succeeded /\ ~drew) =>
          /\ Cardinality(RunComments(db, "article_comments")) = ArticleCommentCount
          /\ Cardinality(RunComments(db, "resource_comments")) = ResourceCommentCount
          /\ \A table \in CommentTables : \A c \in RunComments(db, table) : c.parent_id = 0

\* the reply draw succeeded on a subject without an active top-level comment
\* while another subject has one
C9_Witness ==
    /\ last.kind = "comment"
    /\ last.reply
    /\ last.lookups = 1
    /\ last.row.parent_id = 0
    /\ \E p \in tx[last.table] :
         p.subject # last.row.subject /\ p.parent_id = 0 /\ p.status = 1

\* C10: a like attempt adds one row when the pair is absent and changes
\* nothing when it is present; on a subject without rows before the loop
\* the rows are the users drawn, at most USER_COUNT, and USER_COUNT once
\* every user has been drawn
C10_AttemptFrame ==
    (last.kind = "like") =>
        LET pair == <<last.subject, last.actor>>
            was == BagIn(pair, last.tableBefore)
            rows == Pairs(tx[last.table], last.subject)
        IN /\ tx[last.table] =
                 IF was THEN last.tableBefore
                 ELSE last.tableBefore (+) SetToBag({pair})
           /\ BagCardinality(tx[last.table]) =
                 BagCardinality(last.tableBefore) + (IF was THEN 0 ELSE 1)
           /\ (last.table \in {"article_likes", "resource_likes"} /\ last.before = 0) =>
                 /\ {e[2] : e \in rows} = last.drawn
                 /\ CountPairs(tx[last.table], last.subject) = Cardinality(last.drawn)
                 /\ CountPairs(tx[last.table], last.subject) <= cfg.USER_COUNT
                 /\ (last.drawn = 1..cfg.USER_COUNT =>
                        CountPairs(tx[last.table], last.subject) = cfg.USER_COUNT)

\* the third draw for an article repeats a user after both users were drawn
C10_Witness ==
    /\ last.kind = "like"
    /\ last.table = "article_likes"
    /\ last.before = 0
    /\ last.present
    /\ last.drawn = 1..cfg.USER_COUNT
    /\ cfg.USER_COUNT = 2
    /\ n = 0

\* C11: recomputing the counters a second time, with the child tables as
\* they are, changes no counter: on the tables a rollup is about to run on,
\* and on the tables a rollup has just committed
C11_RollupIdempotent ==
    /\ \A fam \in LikeFamilies :
          (pc = LikesLoop(fam) /\ i = SubjectCount(fam)) =>
              RecountLikes(RecountLikes(tx, fam), fam) = RecountLikes(tx, fam)
    /\ (pc = "c_rollup") =>
          \A fam \in LikeFamilies :
              RecountComments(RecountComments(tx, fam), fam) = RecountComments(tx, fam)
    /\ (last.kind = "rollup" /\ last.fam \in LikeFamilies) =>
          RecountLikes(db, last.fam) = db
    /\ (last.kind = "rollup" /\ last.fam = "comments") =>
          RecountComments(RecountComments(db, "article"), "resource") = db

\* a rollup has replaced the counter 3 of an article by its one active comment
C11_Witness ==
    /\ last.kind = "rollup"
    /\ last.fam = "comments"
    /\ \E a \in DOMAIN db.articles :
         /\ db0.articles[a].comment_count = 3
         /\ db.articles[a].comment_count = 1

\* C12: a generator that has loaded an empty parent pool ends with every
\* table as it was and not as a success (its process reports a failure)
C12_EmptyPoolAbortsFatally ==
    (pc = "exit" /\ \E t \in DOMAIN pools : pools[t] = {}) =>
        /\ db = db0
        /\ exitCode # 0

\* C13: main's process ends with status 0 exactly when every script of the
\* list was run and returned status 0
C13_ExitStatusReflectsSuccess ==
    (main.pc = "done") =>
        (main.exit = 0 <=>
            /\ Len(main.ran) = Len(scripts)
            /\ \A k \in 1..Len(main.ran) : main.ran[k].returncode = 0)

\* C17: scripts are started in the order of the list, one at a time: a
\* script's process and its connection exist only while main waits for it,
\* and when main goes on the connection of the script before is closed; a
\* script that returns a non-zero status is the last one started, and
\* success_count is the number of scripts before it
ConnectionOpen == conn.opened > conn.closes
C17_OneAtATimeInOrder ==
    /\ \A k \in 1..Len(main.ran) : main.ran[k].script = scripts[k]
    /\ Len(main.ran) = main.idx
    /\ (pc # "none" \/ ConnectionOpen) => main.pc = "wait"
    /\ conn.opened <= 1
    /\ \A k \in 1..Len(main.ran) :
          main.ran[k].returncode # 0 =>
              /\ k = Len(main.ran)
              /\ main.success_count = k - 1
              /\ main.pc \in {"summary", "done"}
    /\ main.success_count =
          Cardinality({k \in 1..Len(main.ran) : main.ran[k].returncode = 0})

\* the third script returned status 1 and main has ended with two successes
C17_Witness ==
    /\ main.pc = "done"
    /\ Len(main.ran) = 3
    /\ main.ran[3].returncode = 1
    /\ main.ran[2].returncode = 0
    /\ main.success_count = 2

\* the rows of a table inserted since the last commit of a run still going
Pending(table) == {r \in staged : r[1] = table}

\* the most rows one pass of an outer loop inserts into a table
PerIteration(table) ==
    CASE table = "article_likes" -> MaxArticleLikes
      [] table = "resource_likes" -> MaxResourceLikes
      [] table \in {"article_comment_likes", "resource_comment_likes"} -> MaxCommentLikes
      [] table = "article_code_blocks" -> MaxCodeBlocks
      [] table = "resource_images" -> MaxResourceImages
      [] table = "resource_tags" -> MaxResourceTags
      [] table = "article_category_relations" -> SampleSizeCap("article_categories")
      [] table = "article_tag_relations" -> SampleSizeCap("article_tags")
      [] OTHER -> 1

C15_RollupAfterCommit ==
    (last.kind = "rollup") => last.pending = {}

\* C15: a rollup's UPDATE runs in the transaction of the trailing partial
\* batch: the rows uncommitted at that moment are counted by it and are
\* committed together with the counters, leaving nothing uncommitted
C15_RollupCommitsWithTrailingBatch ==
    (last.kind = "rollup") =>
        /\ last.pending \subseteq flushed
        /\ \A r \in flushed : RowVisible(db, r)
        /\ staged = {}
        /\ tx = db
        /\ last.fam \in LikeFamilies => LikeCountsExact(db, last.fam)
        /\ last.fam = "comments" =>
              (CommentCountsExact(db, "article") /\ CommentCountsExact(db, "resource"))

\* the rollup of generate_comments ran with an active resource comment
\* uncommitted, and the resource's counter includes it
C15_Witness ==
    /\ last.kind = "rollup"
    /\ last.fam = "comments"
    /\ \E c \in db.resource_comments :
         /\ <<"resource_comments", c.id>> \in last.pending
         /\ c.status = 1
         /\ c.subject \in DOMAIN db.resources
         /\ db.resources[c.subject].comment_count = 1

\* C16: a run that has failed has rolled back exactly once, sees no
\* uncommitted row and has only the close left; from the failure on it
\* inserts and commits nothing and does not roll back again.  The
\* connection is closed once, at the end, on every path: success, failure,
\* early return
C16_StateAfterFailure ==
    /\ conn.rollbacks = (IF failed THEN 1 ELSE 0)
    /\ failed => (pc \in {"finally", "exit"} /\ tx = db)
    /\ conn.closes = (IF pc = "exit" THEN 1 ELSE 0)
    /\ (pc \in {"finally", "exit"}) => conn.opened = 1
    /\ (last.kind = "return") => (pc \in {"finally", "exit"} /\ ~failed /\ db = db0)
C16_NothingAfterFailure ==
    failed =>
        /\ failed'
        /\ db' = db
        /\ tx' = tx
        /\ seq' = seq
        /\ commits' = commits
        /\ conn'.rollbacks = conn.rollbacks
        /\ pc' = "exit"
C16_FailureStopsRun == []C16_StateAfterFailure /\ [][C16_NothingAfterFailure]_vars

\* a run failed after a commit, with rows in flight, and has closed
C16_Witness ==
    /\ pc = "exit"
    /\ failed
    /\ commits >= 1
    /\ staged # {}
    /\ conn = [opened |-> 1, rollbacks |-> 1, closes |-> 1]

\* C18: a run that ended without failure has left no row uncommitted, every
\* row it inserted is visible, and the rows it inserted into its entity
\* table are as many as configured
EntityCount(table) == Cardinality({r \in flushed : r[1] = table})
C18_NothingLeftUncommitted ==
    Succeeded =>
        /\ staged = {}
        /\ tx = db
        /\ \A r \in flushed : RowVisible(db, r)
        /\ (DOMAIN pools = {"user_auth"}) =>
              EntityCount("chat_messages") = cfg.CHAT_MESSAGE_COUNT
        /\ (DOMAIN pools = {"article_categories", "article_tags"}) =>
              EntityCount("articles") = cfg.ARTICLE_COUNT
        /\ (last.kind = "final") => EntityCount(last.table) = last.reported
        /\ (last.kind = "rollup" /\ last.fam = "comments") =>
              EntityCount("article_comments") + EntityCount("resource_comments")
                  = cfg.COMMENT_COUNT

\* C19: the parent of every reply is a comment of the same table and the
\* same subject, has status 1, and its author is the reply's reply_to_user_id
SameSubjectActiveParent(rows) ==
    \A c \in rows :
        c.parent_id # 0 =>
            \E p \in rows :
                /\ p.id = c.parent_id
                /\ p.subject = c.subject
                /\ p.status = 1
                /\ p.user_id = c.reply_to_user_id
C19_ParentOfReply ==
    \A table \in CommentTables :
        SameSubjectActiveParent(tx[table]) /\ SameSubjectActiveParent(db[table])

\* user 2 replied to a comment that user 1 wrote in the same run
C19_Witness ==
    /\ last.kind = "comment"
    /\ last.row.parent_id # 0
    /\ last.row.user_id = 2
    /\ last.row.reply_to_user_id = 1
    /\ <<last.table, last.row.parent_id>> \in flushed \cup staged
    /\ last.row \in tx[last.table]

\* C20 as stated: the parent of a reply was committed when it was selected
C20_ParentCommitted ==
    (last.kind = "comment" /\ last.row.parent_id # 0) =>
        last.row.parent_id \in last.visible

\* C20: the parent of a reply is a comment the connection saw when it was
\* selected, inserted before the reply into the same table: committed by
\* then, or still in the uncommitted batch of the run
C20_ParentVisibleToConnection ==
    (last.kind = "comment" /\ last.row.parent_id # 0) =>
        /\ last.row.parent_id \in last.candidates
        /\ last.row.parent_id < last.row.id
        /\ \E p \in tx[last.table] : p.id = last.row.parent_id
        /\ (pc \in {"ac_likes", "rc_likes"}) =>
              \/ last.row.parent_id \in last.visible
              \/ <<last.table, last.row.parent_id>> \in staged

\* a reply was inserted whose parent is in the uncommitted batch
C20_Witness ==
    /\ last.kind = "comment"
    /\ pc \in {"ac_likes", "rc_likes"}
    /\ last.row.parent_id # 0
    /\ last.row.parent_id \notin last.visible
    /\ <<last.table, last.row.parent_id>> \in staged

\* the rows of a relation table whose subject is s, with their copies
RowsOf(bag, s) == SumOver(Pairs(bag, s), bag)

\* the entities a run has inserted into a table, committed or not
Inserted(table) == {r[2] : r \in {q \in flushed \cup staged : q[1] = table}}

\* C21: commits fall between entity groups: among the committed rows every
\* user of the run has exactly one user_profile row and every article of
\* the run has a category relation and a tag relation, and no child row of
\* the run (profile, code block, relation) is committed without its entity
C21_EntityGroupsWhole ==
    /\ \A u \in Inserted("user_auth") :
          (u \in db.user_auth) => CopiesIn(u, db.user_profile) = 1
    /\ \A u \in Inserted("user_profile") :
          BagIn(u, db.user_profile) => u \in db.user_auth
    /\ \A a \in Inserted("articles") :
          (a \in DOMAIN db.articles) =>
              /\ RowsOf(db.article_category_relations, a) >= 1
              /\ RowsOf(db.article_tag_relations, a) >= 1
    /\ \A table \in {"article_code_blocks", "article_category_relations",
                     "article_tag_relations"} :
          \A e \in Inserted(table) :
              BagIn(e, db[table]) => e[1] \in DOMAIN db.articles

\* generate_articles failed in its third article, after the INSERT of the
\* article and of its category relations: the two articles of the committed
\* batch are there with their relations, the third is not
C21_Witness ==
    /\ pc = "exit"
    /\ failed
    /\ Cardinality(Inserted("articles")) = 3
    /\ Cardinality(DOMAIN db.articles) = 2
    /\ \E e \in staged : e[1] = "article_category_relations"
    /\ \A a \in DOMAIN db.articles : RowsOf(db.article_category_relations, a) = 2

\* the rows of a relation table that point to c, with their copies
RowsTo(bag, c) == SumOver({e \in BagToSet(bag) : e[2] = c}, bag)

\* whether every counter of counters has grown, since the run started, by
\* the relation rows pointing to its row that have become visible since
CountersFollow(counters, relations) ==
    \A c \in DOMAIN db[counters] :
        db[counters][c] - db0[counters][c] =
            RowsTo(db[relations], c) - RowsTo(db0[relations], c)

Survivors(d, table) == {r \in flushed \cup staged : r[1] = table /\ RowVisible(d, r)}

\* C23: in the resource-comment loop, until its first in-loop commit, the
\* article comments after the last full batch (article_comment_count mod T
\* of them) are uncommitted with their likes, while those of the full
\* batches are committed; a failure at that point leaves the committed
\* tables as they are: the trailing article comments are gone with the
\* resource comments, the article comments of the full batches remain
BeforeFirstResourceFlush ==
    /\ pc \in {"rc_loop", "rc_likes"}
    /\ i < BatchSize
C23_TrailingBatchOpen ==
    BeforeFirstResourceFlush =>
        /\ commits = ArticleCommentCount \div BatchSize
        /\ Cardinality(Pending("article_comments")) = ArticleCommentCount % BatchSize
        /\ EntityCount("article_comments") =
              ArticleCommentCount - (ArticleCommentCount % BatchSize)
        /\ \A r \in staged : ~RowVisible(db, r)
        /\ \A r \in flushed : RowVisible(db, r)
        /\ EntityCount("resource_comments") = 0
C23_FailureDiscardsTrailingBatch ==
    (BeforeFirstResourceFlush /\ failed') =>
        /\ db' = db
        /\ tx' = db
        /\ \A r \in staged : ~RowVisible(db', r)
        /\ \A r \in flushed : RowVisible(db', r)
        /\ Cardinality(Survivors(db', "article_comments")) =
              ArticleCommentCount - (ArticleCommentCount % BatchSize)
C23_TrailingBatchSharesTransaction ==
    []C23_TrailingBatchOpen /\ [][C23_FailureDiscardsTrailingBatch]_vars

\* a run over three article comments failed after the INSERT of its first
\* resource comment: the third article comment and its like are gone with
\* it, the two of the committed batch are there
C23_Witness ==
    /\ pc = "exit"
    /\ failed
    /\ ArticleCommentCount = 3
    /\ commits = 1
    /\ Cardinality(Pending("article_comments")) = 1
    /\ Pending("article_comment_likes") # {}
    /\ Pending("resource_comments") # {}
    /\ Cardinality(Survivors(db, "article_comments")) = 2
    /\ Cardinality(db.article_comments) = 2
    /\ db.resource_comments = {}

\* C24: while generate_likes is in its article loop no committed articles
\* row has changed and the likes of the batches flushed so far are
\* committed, and a failure there leaves both so (no like_count is
\* recomputed); a failure in the resource loop leaves every article like of
\* the run and the recomputed like_count values committed, as they were
InArticleLikes == pc \in {"al_loop", "al_likes"}
InResourceLikes == pc \in {"rl_loop", "rl_likes"}
C24_ArticleLoopLeavesCounters ==
    InArticleLikes =>
        /\ db.articles = db0.articles
        /\ \A r \in flushed : RowVisible(db, r)
C24_AbortFrame ==
    /\ (InArticleLikes /\ failed') =>
          /\ db' = db
          /\ db'.articles = db0.articles
          /\ \A r \in flushed : RowVisible(db', r)
          /\ \A r \in staged : ~RowVisible(db', r)
    /\ (InResourceLikes /\ failed') =>
          /\ db'.articles = db.articles
          /\ db'.article_likes = db.article_likes
          /\ db'.article_likes = tx.article_likes
          /\ \A r \in flushed \cup staged :
                r[1] = "article_likes" => RowVisible(db', r)
          /\ LikeCountsExact(db', "article")
C24_AbortKeepsFlushedWork ==
    []C24_ArticleLoopLeavesCounters /\ [][C24_AbortFrame]_vars

\* generate_likes failed at the recount after the article loop, having
\* committed the likes of a batch: article 1 has two committed likes and the
\* like_count it was created with
C24_Witness ==
    /\ pc = "exit"
    /\ failed
    /\ commits = 1
    /\ db.articles = db0.articles
    /\ db.resource_likes = db0.resource_likes
    /\ 1 \in DOMAIN db.articles
    /\ Cardinality(Pairs(db.article_likes, 1)) = 2
    /\ db.articles[1].like_count = 3
    /\ \E r \in flushed : r[1] = "article_likes" /\ r[2][1] = 1

\* generate_likes failed in the resource loop, after the recount, with a
\* resource like uncommitted
C24_WitnessResourceLoop ==
    /\ pc = "exit"
    /\ failed
    /\ commits = 2
    /\ Pending("resource_likes") # {}
    /\ db.articles # db0.articles
    /\ LikeCountsExact(db, "article")

====
